---- MODULE Spec2Model ----
(***************************************************************************)
(* A model of the circadian analytics core of jjnhytros/simAI:             *)
(*   readers.py  interval_fraction, resample_df, combine_wearable_dataframes*)
(*   metrics.py  esri                                                       *)
(* Timestamps are whole hours since an epoch.  Floating point numbers are   *)
(* exact rationals extended with +inf, -inf and NaN.                        *)
(***************************************************************************)
EXTENDS Integers, Sequences, FiniteSets, TLC

\* ------------------------------------------------------------------ bounds
\* hours of the day and days used for the interval_fraction inputs
MaxHour == 2
MaxDay == 1
\* longest pd.Series handed to interval_fraction
MaxSeries == 2
\* resample_df inputs: latest timestamp, most rows, largest value, and the
\* longest frequency (hours) of the enumerated streams and calls
MaxTime == 3
MaxRows == 4
MaxIntervalRows == 2
MaxValue == 2
MaxFreq == 3
\* days of the one-sample-per-hour stream
MaxDays == 2
\* combine_wearable_dataframes inputs: latest timestamp, largest value and
\* longest frequency (hours) of the enumerated streams
MaxCombineTime == 3
MaxCombineValue == 1
MaxCombineFreq == 2
\* esri inputs: latest first hour of the time array, hours the array runs
\* beyond the analysis window, most analysis days, longest esri_dt (hours)
MaxStartHour == 1
MaxExtra == 2
MaxAnalysisDays == 2
MaxEsriDt == 2
\* HaveFunAction: objects at the NPC's location, kinds of object, longest
\* action (ticks), largest fun gain
MaxObjects == 2
MaxObjectTypes == 2
MaxTicks == 2
MaxFunGain == 1

\* ------------------------------------------------------- library constants
\* pandas Timedelta: .seconds is the seconds component within one day
HoursPerDay == 24
SecondsPerHour == 3600

\* ------------------------------------------------------------------ numbers
RECURSIVE GCD(_, _)
GCD(a, b) == IF b = 0 THEN a ELSE GCD(b, a % b)

Abs(x) == IF x < 0 THEN -x ELSE x

\* a finite float n/d in lowest terms, d > 0
Fin(n, d) ==
  LET g == GCD(Abs(n), Abs(d))
      s == IF d < 0 THEN -1 ELSE 1
  IN [k |-> "fin", n |-> (s * n) \div g, d |-> (s * d) \div g]

NaN == [k |-> "nan", n |-> 0, d |-> 1]
PInf == [k |-> "inf", n |-> 1, d |-> 1]
NInf == [k |-> "inf", n |-> -1, d |-> 1]
Zero == Fin(0, 1)

IsNaN(x) == x.k = "nan"
IsFin(x) == x.k = "fin"
Sign(x) == IF x.n > 0 THEN 1 ELSE IF x.n < 0 THEN -1 ELSE 0
Signed(s) == IF s > 0 THEN PInf ELSE IF s < 0 THEN NInf ELSE NaN

\* IEEE multiplication
Mul(a, b) ==
  IF IsNaN(a) \/ IsNaN(b) THEN NaN
  ELSE IF IsFin(a) /\ IsFin(b) THEN Fin(a.n * b.n, a.d * b.d)
  ELSE Signed(Sign(a) * Sign(b))

\* IEEE addition
Add(a, b) ==
  IF IsNaN(a) \/ IsNaN(b) THEN NaN
  ELSE IF IsFin(a) /\ IsFin(b) THEN Fin(a.n * b.d + b.n * a.d, a.d * b.d)
  ELSE IF IsFin(a) THEN b
  ELSE IF IsFin(b) THEN a
  ELSE IF a = b THEN a ELSE NaN

\* a < b ; false when either is NaN
Less(a, b) ==
  IF IsNaN(a) \/ IsNaN(b) THEN FALSE
  ELSE IF IsFin(a) /\ IsFin(b) THEN a.n * b.d < b.n * a.d
  ELSE IF IsFin(a) THEN b = PInf
  ELSE IF IsFin(b) THEN a = NInf
  ELSE a = NInf /\ b = PInf

Leq(a, b) == a = b \/ Less(a, b)

\* numpy true division of two integer arrays' elements
TrueDivide(c, f) ==
  IF f = 0 THEN Signed(c) ELSE Fin(c, f)

\* division of a float by a positive count
DivInt(a, m) ==
  IF IsFin(a) THEN Fin(a.n, a.d * m) ELSE a

Max2(a, b) == IF a < b THEN b ELSE a
Min2(a, b) == IF a < b THEN a ELSE b

\* pandas Timedelta.seconds of a difference of delta hours
TimedeltaSeconds(delta) == (delta % HoursPerDay) * SecondsPerHour

\* --------------------------------------------------------------- variables
VARIABLES
  pc,          \* position of the running call
  raised,      \* the exception the call raised, "none" if none
  starts,      \* interval_fraction: start datetimes
  stops,       \* interval_fraction: stop datetimes
  ref_start,   \* interval_fraction: reference interval
  ref_stop,
  fractions,   \* interval_fraction: the returned Series
  df,          \* resample_df: the dataframe to resample
  name,        \* resample_df: the column to resample
  freq,        \* resample_df: the frequency string
  agg_method,  \* resample_df: the aggregation method
  initial_datetime,  \* resample_df: grid bounds (None or a Timestamp)
  final_datetime,
  new_datetime,      \* resample_df: the grid
  new_values,        \* resample_df: the values on the grid
  idx,               \* resample_df: the loop index (0-based)
  result,            \* resample_df: the returned DataFrame
  df_dict,           \* combine: the dictionary, in insertion order
  resample_freq,     \* combine: the resampling frequency
  metadata,          \* combine: the metadata argument (None or its keys)
  initial_datetimes, \* combine: the lower bounds collected so far
  final_datetimes,   \* combine: the upper bounds collected so far
  df_list,           \* combine: the resampled frames
  combined,          \* combine: the merged frame
  k,                 \* combine: the index of the running loop (0-based)
  time,              \* esri: the time array (hours)
  light_schedule,    \* esri: the light array (lux)
  analysis_days,     \* esri: days simulated from each starting point
  esri_dt,           \* esri: hours between starting points
  initial_amplitude, \* esri: amplitude every simulation starts from
  oscillator,        \* esri: final amplitude the model gives per starting point
  model,             \* esri: whether the Hannay19 model has been constructed
  model_calls,       \* esri: how often the model has been invoked
  simulation_dt,     \* esri: the step of the time array
  esri_time,         \* esri: the starting points
  esri_array,        \* esri: the values
  eidx,              \* esri: the loop index (0-based)
  warned,            \* esri: whether warnings.warn was called
  ret,               \* esri: the returned pair of arrays
  bound,             \* combine: the object its local name df is bound to
  written,           \* the objects the call has modified in place
  returned,          \* the objects the call has returned
  order,             \* esri: the order an executor takes the starting points in
  super_valid,       \* HaveFunAction: BaseAction.is_valid() and the activity
  fun_is_high,       \* HaveFunAction: the NPC's FUN is within 5 of the maximum
  without_objects,   \* HaveFunAction: activity_type in ACTIVITIES_WITHOUT_OBJECTS
  has_location,      \* HaveFunAction: the NPC's current location is found
  required_object_types, \* HaveFunAction: the kinds of object that will do
  object_type,       \* GameObject.object_type of the location's objects
  in_use_by,         \* GameObject: who uses each object
  target_object,     \* HaveFunAction.target_object
  duration_ticks,    \* BaseAction.duration_ticks
  elapsed_ticks,     \* BaseAction.elapsed_ticks
  fun_gain,          \* HaveFunAction.fun_gain
  fun_change         \* the changes of FUN the action has asked the NPC for

fracVars == <<starts, stops, ref_start, ref_stop, fractions>>
resArgs == <<df, name, freq, agg_method>>
resVars == <<resArgs, initial_datetime, final_datetime, new_datetime,
             new_values, idx, result>>
combArgs == <<df_dict, resample_freq, metadata>>
combVars == <<combArgs, initial_datetimes, final_datetimes, df_list,
              combined, k>>
esriArgs == <<time, light_schedule, analysis_days, esri_dt,
              initial_amplitude, oscillator, order>>
esriVars == <<esriArgs, model, model_calls, simulation_dt, esri_time,
              esri_array, eidx, warned, ret>>
heapVars == <<bound, written, returned>>
funArgs == <<super_valid, fun_is_high, without_objects, has_location,
             required_object_types, object_type, duration_ticks, fun_gain>>
funVars == <<funArgs, in_use_by, target_object, elapsed_ticks, fun_change>>
vars == <<pc, raised, fracVars, resVars, combVars, esriVars, heapVars, funVars>>

\* ------------------------------------------------------------ data model
\* an optional Timestamp argument
NoneTS == [some |-> FALSE, t |-> 0]
SomeTS(t) == [some |-> TRUE, t |-> t]

\* a frequency argument: a parseable offset of h hours, a string pandas cannot
\* parse, or a value that is not a string
Offset(h) == [kind |-> "offset", h |-> h]
InvalidFreq == [kind |-> "invalid", h |-> 0]
NotStrFreq == [kind |-> "notstr", h |-> 0]

NoName == "<None>"
NoFrame == [datetime |-> <<>>, value |-> <<>>]
DefaultAttrs == {"data_id", "subject_id"}
NoDf == [cols |-> {}, attrs |-> {}, rows |-> <<>>]

\* the state of a call of resample_df that is not running
IdleResample ==
  /\ df = NoDf
  /\ name = NoName
  /\ freq = InvalidFreq
  /\ agg_method = "sum"
  /\ initial_datetime = NoneTS
  /\ final_datetime = NoneTS
  /\ new_datetime = <<>>
  /\ new_values = <<>>
  /\ idx = 0
  /\ result = NoFrame

NoMerged == [cols |-> <<>>, attrs |-> {}, rows |-> <<>>]
NoMetadata == [some |-> FALSE, keys |-> {}]
Metadata(keys) == [some |-> TRUE, keys |-> keys]

\* the state of a call of combine_wearable_dataframes that is not running
IdleCombine ==
  /\ df_dict = <<>>
  /\ resample_freq = InvalidFreq
  /\ metadata = NoMetadata
  /\ initial_datetimes = <<>>
  /\ final_datetimes = <<>>
  /\ df_list = <<>>
  /\ combined = NoMerged
  /\ k = 0

NoReturn == [time |-> <<>>, values |-> <<>>]

\* the state of a call of esri that is not running
IdleEsri ==
  /\ time = <<>>
  /\ light_schedule = <<>>
  /\ analysis_days = 0
  /\ esri_dt = 0
  /\ initial_amplitude = Zero
  /\ oscillator = <<>>
  /\ order = <<>>
  /\ model = FALSE
  /\ model_calls = 0
  /\ simulation_dt = 0
  /\ esri_time = <<>>
  /\ esri_array = <<>>
  /\ eidx = 0
  /\ warned = FALSE
  /\ ret = NoReturn

\* an object of the heap: an argument of the call, or an object the call
\* makes at the named statement (i numbers the objects one statement makes)
Arg(site, i) == [arg |-> TRUE, site |-> site, i |-> i]
New(site, i) == [arg |-> FALSE, site |-> site, i |-> i]
NoObject == New("", 0)

\* no local name bound, nothing written, nothing returned
IdleHeap ==
  /\ bound = NoObject
  /\ written = {}
  /\ returned = {}

\* target_object is None
NoTarget == 0

\* the state when no HaveFunAction exists
IdleFun ==
  /\ super_valid = FALSE
  /\ fun_is_high = FALSE
  /\ without_objects = FALSE
  /\ has_location = FALSE
  /\ required_object_types = {}
  /\ object_type = <<>>
  /\ in_use_by = <<>>
  /\ target_object = NoTarget
  /\ duration_ticks = 0
  /\ elapsed_ticks = 0
  /\ fun_gain = Zero
  /\ fun_change = Zero

\* ------------------------------------------------------- interval_fraction
interval_fraction(ss, es, rs, re) ==
  [i \in 1..Len(ss) |->
     LET max_start == Max2(ss[i], rs)
         min_end == Min2(es[i], re)
         contained == TimedeltaSeconds(min_end - max_start)
         full == TimedeltaSeconds(es[i] - ss[i])
     IN TrueDivide(contained, full)]

FractionTimes == {d * HoursPerDay + h : d \in 0..MaxDay, h \in 0..MaxHour}

SeqsUpTo(S, m) == UNION {[1..len -> S] : len \in 1..m}

FractionIntervals == {p \in FractionTimes \X FractionTimes : p[1] <= p[2]}

InitFraction ==
  /\ pc = "interval_fraction"
  /\ raised = "none"
  /\ \E ivs \in SeqsUpTo(FractionIntervals, MaxSeries) :
       /\ starts = [i \in 1..Len(ivs) |-> ivs[i][1]]
       /\ stops = [i \in 1..Len(ivs) |-> ivs[i][2]]
  /\ \E r \in {p \in FractionTimes \X FractionTimes : p[1] < p[2]} :
       /\ ref_start = r[1]
       /\ ref_stop = r[2]
  /\ fractions = <<>>
  /\ IdleResample
  /\ IdleCombine
  /\ IdleEsri
  /\ IdleHeap
  /\ IdleFun

IntervalFraction ==
  /\ pc = "interval_fraction"
  /\ fractions' = interval_fraction(starts, stops, ref_start, ref_stop)
  /\ pc' = "fraction_returned"
  /\ UNCHANGED <<funVars, heapVars, raised, starts, stops, ref_start, ref_stop, resVars, combVars, esriVars>>

NextFraction == IntervalFraction

SpecFraction == InitFraction /\ [][NextFraction]_vars

One == Fin(1, 1)

\* C1: for every well-formed source interval (start < end) the returned
\* fraction lies in [0, 1], is 1 when the source interval is contained in the
\* reference interval and 0 when the two are disjoint.
C1_FractionInUnitInterval ==
  pc = "fraction_returned" =>
    \A i \in 1..Len(starts) :
      starts[i] < stops[i] =>
        /\ Leq(Zero, fractions[i]) /\ Leq(fractions[i], One)
        /\ (ref_start <= starts[i] /\ stops[i] <= ref_stop => fractions[i] = One)
        /\ (stops[i] <= ref_start \/ ref_stop <= starts[i] => fractions[i] = Zero)

\* ------------------------------------------------------------ WearableData
VALID_WEARABLE_STREAMS ==
  {"steps", "heartrate", "wake", "light_estimate", "activity"}

\* the exception _validate_columns raises, "none" if none
validate_columns(obj) ==
  IF "datetime" \notin obj.cols /\ "start" \notin obj.cols /\ "end" \notin obj.cols
  THEN "AttributeError"
  ELSE IF obj.cols \cap VALID_WEARABLE_STREAMS = {}
  THEN "AttributeError"
  ELSE "none"

\* the exception _validate_metadata raises; attrs holds the metadata keys
validate_metadata(attrs) ==
  IF attrs # {} /\ attrs \cap {"data_id", "subject_id"} = {}
  THEN "AttributeError"
  ELSE "none"

is_valid(obj) ==
  IF validate_columns(obj) # "none" THEN validate_columns(obj)
  ELSE validate_metadata(obj.attrs)

\* -------------------------------------------------------------- resample_df
AGG_METHODS == {"sum", "mean", "max", "min"}

\* the exception the input validation of resample_df raises, "none" if none
resample_validate(d, nm, f, agg) ==
  IF is_valid(d) # "none" THEN is_valid(d)
  ELSE IF f.kind = "notstr" THEN "AttributeError"
  ELSE IF nm # NoName /\ nm \notin VALID_WEARABLE_STREAMS THEN "AttributeError"
  ELSE IF nm \notin d.cols THEN "AttributeError"
  ELSE IF agg \notin AGG_METHODS THEN "AttributeError"
  ELSE "none"

IsIntervalDf(d) == "start" \in d.cols /\ "end" \in d.cols

RECURSIVE MinOf(_)
MinOf(s) ==
  IF Len(s) = 1 THEN s[1] ELSE Min2(Head(s), MinOf(Tail(s)))

RECURSIVE MaxOf(_)
MaxOf(s) ==
  IF Len(s) = 1 THEN s[1] ELSE Max2(Head(s), MaxOf(Tail(s)))

Column(d, c) == [i \in 1..Len(d.rows) |-> d.rows[i][c]]

\* the lower grid bound: the argument, or the minimum start / datetime
LowerBound(d, initial) ==
  IF initial.some THEN initial.t
  ELSE IF IsIntervalDf(d) THEN MinOf(Column(d, "start"))
  ELSE MinOf(Column(d, "datetime"))

\* the upper grid bound: the argument, or the maximum end / datetime
UpperBound(d, final) ==
  IF final.some THEN final.t
  ELSE IF IsIntervalDf(d) THEN MaxOf(Column(d, "end"))
  ELSE MaxOf(Column(d, "datetime"))

\* the exception raised while the branch is chosen and the grid is built:
\* df.datetime on a frame without that column, or pd.date_range on a
\* frequency it cannot use
grid_error(d, f) ==
  IF ~IsIntervalDf(d) /\ "datetime" \notin d.cols THEN "AttributeError"
  ELSE IF f.kind = "invalid" THEN "ValueError"
  ELSE IF f.h = 0 THEN "ZeroDivisionError"
  ELSE "none"

\* pd.date_range(a, b, freq = h hours): both ends inclusive; a negative
\* frequency counts down from a
date_range(a, b, h) ==
  IF h > 0 THEN
    IF a <= b THEN [i \in 1..((b - a) \div h + 1) |-> a + (i - 1) * h] ELSE <<>>
  ELSE
    IF a >= b THEN [i \in 1..((a - b) \div (-h) + 1) |-> a + (i - 1) * h] ELSE <<>>

RECURSIVE SumSeq(_)
SumSeq(s) == IF s = <<>> THEN Zero ELSE Add(Head(s), SumSeq(Tail(s)))

RECURSIVE MaxSeq(_)
MaxSeq(s) ==
  IF Len(s) = 1 THEN s[1]
  ELSE LET m == MaxSeq(Tail(s)) IN IF Less(m, Head(s)) THEN Head(s) ELSE m

RECURSIVE MinSeq(_)
MinSeq(s) ==
  IF Len(s) = 1 THEN s[1]
  ELSE LET m == MinSeq(Tail(s)) IN IF Less(Head(s), m) THEN Head(s) ELSE m

\* pd.Series.agg(method): NaN entries are skipped
Agg(method, s) ==
  LET t == SelectSeq(s, LAMBDA x : ~IsNaN(x))
  IN CASE method = "sum" -> SumSeq(t)
       [] method = "mean" -> IF t = <<>> THEN NaN ELSE DivInt(SumSeq(t), Len(t))
       [] method = "max" -> IF t = <<>> THEN NaN ELSE MaxSeq(t)
       [] method = "min" -> IF t = <<>> THEN NaN ELSE MinSeq(t)

\* the rows the interval branch selects for the bucket starting at g
IntervalMask(d, g, next_datetime) ==
  SelectSeq(d.rows, LAMBDA r : r.start <= next_datetime /\ r.end > g)

\* the rows the datetime branch selects for the bucket starting at g
InstantMask(d, g, next_datetime) ==
  SelectSeq(d.rows, LAMBDA r : r.datetime <= next_datetime /\ r.datetime >= g)

\* one iteration of the loop: the value written to new_values[idx]
BucketValue(d, f, agg, g) ==
  LET next_datetime == g + f.h
  IN IF IsIntervalDf(d) THEN
       LET sel == IntervalMask(d, g, next_datetime)
           value_fraction ==
             interval_fraction([i \in 1..Len(sel) |-> sel[i].start],
                               [i \in 1..Len(sel) |-> sel[i].end],
                               g, next_datetime)
       IN IF Len(sel) > 0
          THEN Agg(agg, [i \in 1..Len(sel) |->
                           Mul(Fin(sel[i].v, 1), value_fraction[i])])
          ELSE Zero
     ELSE
       LET sel == InstantMask(d, g, next_datetime)
       IN IF Len(sel) > 0
          THEN Agg(agg, [i \in 1..Len(sel) |-> Fin(sel[i].v, 1)])
          ELSE Zero

\* the whole call: the exception raised, or the returned frame
resample_df(d, nm, f, agg, initial, final) ==
  IF resample_validate(d, nm, f, agg) # "none"
  THEN [raised |-> resample_validate(d, nm, f, agg), frame |-> NoFrame]
  ELSE IF grid_error(d, f) # "none"
  THEN [raised |-> grid_error(d, f), frame |-> NoFrame]
  ELSE LET grid == date_range(LowerBound(d, initial), UpperBound(d, final), f.h)
       IN [raised |-> "none",
           frame |-> [datetime |-> grid,
                      value |-> [i \in 1..Len(grid) |->
                                   BucketValue(d, f, agg, grid[i])]]]

\* lines 204-220: the validation raises
ResampleValidateRaise ==
  /\ pc = "resample_df"
  /\ resample_validate(df, name, freq, agg_method) # "none"
  /\ raised' = resample_validate(df, name, freq, agg_method)
  /\ pc' = "resample_raised"
  /\ UNCHANGED <<funVars, heapVars, fracVars, resVars, combVars, esriVars>>

\* lines 204-220: the validation passes
ResampleValidateOk ==
  /\ pc = "resample_df"
  /\ resample_validate(df, name, freq, agg_method) = "none"
  /\ pc' = "resample_grid"
  /\ UNCHANGED <<funVars, heapVars, raised, fracVars, resVars, combVars, esriVars>>

\* lines 223-231 / 242-247: building the grid raises
ResampleGridRaise ==
  /\ pc = "resample_grid"
  /\ grid_error(df, freq) # "none"
  /\ raised' = grid_error(df, freq)
  /\ pc' = "resample_raised"
  /\ UNCHANGED <<funVars, heapVars, fracVars, resVars, combVars, esriVars>>

\* lines 223-232 / 242-248: default bounds, the grid and the zero array
ResampleGrid ==
  /\ pc = "resample_grid"
  /\ grid_error(df, freq) = "none"
  /\ initial_datetime' = SomeTS(LowerBound(df, initial_datetime))
  /\ final_datetime' = SomeTS(UpperBound(df, final_datetime))
  /\ new_datetime' = date_range(LowerBound(df, initial_datetime),
                                UpperBound(df, final_datetime), freq.h)
  /\ new_values' = [i \in 1..Len(new_datetime') |-> Zero]
  /\ idx' = 0
  /\ pc' = "resample_loop"
  /\ UNCHANGED <<funVars, heapVars, raised, fracVars, resArgs, result, combVars, esriVars>>

\* lines 233-239 / 249-253: one iteration of the loop over the grid
ResampleBucket ==
  /\ pc = "resample_loop"
  /\ idx < Len(new_datetime)
  /\ new_values' = [new_values EXCEPT ![idx + 1] =
                      BucketValue(df, freq, agg_method, new_datetime[idx + 1])]
  /\ idx' = idx + 1
  /\ written' = written \cup {New("new_values", 0)}
  /\ UNCHANGED <<funVars, bound, returned, pc, raised, fracVars, resArgs, initial_datetime,
                 final_datetime, new_datetime, result, combVars, esriVars>>

\* line 255: the frame is returned
ResampleReturn ==
  /\ pc = "resample_loop"
  /\ idx = Len(new_datetime)
  /\ result' = [datetime |-> new_datetime, value |-> new_values]
  /\ pc' = "resample_returned"
  /\ returned' = {New("DataFrame", 0)}
  /\ UNCHANGED <<funVars, bound, written, raised, fracVars, resArgs, initial_datetime, final_datetime,
                 new_datetime, new_values, idx, combVars, esriVars>>

\* ---------------------------------------------------- resample_df: inputs
RECURSIVE SortedSeq(_)
SortedSeq(T) ==
  IF T = {} THEN <<>>
  ELSE LET m == CHOOSE x \in T : \A y \in T : x <= y
       IN <<m>> \o SortedSeq(T \ {m})

InstantRow(t, v) == [datetime |-> t, start |-> 0, end |-> 0, v |-> v]
IntervalRow(a, b, v) == [datetime |-> 0, start |-> a, end |-> b, v |-> v]

InstantDf(nm, rows) ==
  [cols |-> {"datetime", nm}, attrs |-> DefaultAttrs, rows |-> rows]
IntervalDf(nm, rows) ==
  [cols |-> {"start", "end", nm}, attrs |-> DefaultAttrs, rows |-> rows]

\* instant-indexed streams: distinct timestamps in 0..MaxTime, in order
InstantStreams(nm, maxT, maxR) ==
  UNION {
    {InstantDf(nm, [i \in 1..Len(ts) |-> InstantRow(ts[i], vs[i])]) :
       vs \in [1..Len(ts) -> 1..MaxValue]} :
    ts \in {SortedSeq(T) : T \in {U \in SUBSET (0..maxT) :
                                   Cardinality(U) \in 1..maxR}}}

\* interval-indexed streams: well-formed intervals (start < end), in order
IntervalStreams(nm, maxT, maxR) ==
  LET ivs == {p \in (0..maxT) \X (0..maxT) : p[1] < p[2]}
      key(p) == p[1] * (maxT + 1) + p[2]
      lists == {l \in SeqsUpTo(ivs, maxR) :
                  \A i \in 1..(Len(l) - 1) : key(l[i]) <= key(l[i + 1])}
  IN UNION {
       {IntervalDf(nm, [i \in 1..Len(l) |-> IntervalRow(l[i][1], l[i][2], vs[i])]) :
          vs \in [1..Len(l) -> 1..MaxValue]} :
       l \in lists}

\* one sample of value 1 per hour over the given number of days
DayStream(days) ==
  InstantDf("steps", [i \in 1..(HoursPerDay * days) |-> InstantRow(i - 1, 1)])

\* the records [0h,2h) = 10 and [2h,4h) = 20
TwoIntervalStream ==
  IntervalDf("steps", <<IntervalRow(0, 2, 10), IntervalRow(2, 4, 20)>>)

\* frames that are neither instant- nor interval-indexed, or carry no stream
MalformedStreams ==
  {[cols |-> c, attrs |-> DefaultAttrs, rows |-> <<InstantRow(0, 1)>>] :
     c \in {{"steps"}, {"start", "steps"}, {"end", "steps"}, {"datetime"}}}
  \cup {[cols |-> {"datetime", "steps"}, attrs |-> {"other_info"},
         rows |-> <<InstantRow(0, 1)>>]}

BoundChoices == {NoneTS, SomeTS(0)} \X {NoneTS, SomeTS(MaxTime + 1)}

InitResampleCall(d, nm, f, agg, b) ==
  /\ pc = "resample_df"
  /\ raised = "none"
  /\ starts = <<>> /\ stops = <<>> /\ ref_start = 0 /\ ref_stop = 0
  /\ fractions = <<>>
  /\ df = d
  /\ name = nm
  /\ freq = f
  /\ agg_method = agg
  /\ initial_datetime = b[1]
  /\ final_datetime = b[2]
  /\ new_datetime = <<>>
  /\ new_values = <<>>
  /\ idx = 0
  /\ result = NoFrame
  /\ IdleCombine
  /\ IdleEsri
  /\ IdleHeap
  /\ IdleFun

InitResample ==
  \/ \E d \in InstantStreams("steps", MaxTime, MaxRows)
            \cup IntervalStreams("steps", MaxTime, MaxIntervalRows),
        h \in 1..MaxFreq, agg \in AGG_METHODS, b \in BoundChoices :
       InitResampleCall(d, "steps", Offset(h), agg, b)
  \/ \E days \in 1..MaxDays :
       InitResampleCall(DayStream(days), "steps", Offset(HoursPerDay), "sum",
                        <<NoneTS, NoneTS>>)
  \/ InitResampleCall(TwoIntervalStream, "steps", Offset(4), "sum",
                      <<NoneTS, NoneTS>>)
  \/ \E d \in InstantStreams("steps", 1, 2) \cup IntervalStreams("steps", 1, 1)
            \cup MalformedStreams,
        nm \in {"steps", "heartrate", "calories", NoName},
        f \in {Offset(1), Offset(0), Offset(-1), InvalidFreq, NotStrFreq},
        agg \in AGG_METHODS \cup {"median"} :
       InitResampleCall(d, nm, f, agg, <<NoneTS, NoneTS>>)

NextResample ==
  \/ ResampleValidateRaise
  \/ ResampleValidateOk
  \/ ResampleGridRaise
  \/ ResampleGrid
  \/ ResampleBucket
  \/ ResampleReturn

SpecResample == InitResample /\ [][NextResample]_vars

\* --------------------------------------------------- resample_df: claims
IsInstantDf(d) == ~IsIntervalDf(d) /\ "datetime" \in d.cols

\* the rows of an instant-indexed stream sit on a uniform step of s hours
UniformStep(d, s) ==
  /\ Len(d.rows) >= 2
  /\ s > 0
  /\ \A i \in 1..(Len(d.rows) - 1) :
       d.rows[i + 1].datetime - d.rows[i].datetime = s

\* the grid bounds are the ones the data give
DataBounds ==
  /\ initial_datetime = SomeTS(LowerBound(df, NoneTS))
  /\ final_datetime = SomeTS(UpperBound(df, NoneTS))

\* the values of the rows whose timestamp lies in [lo, hi)
ValuesIn(d, lo, hi) ==
  LET sel == SelectSeq(d.rows, LAMBDA r : lo <= r.datetime /\ r.datetime < hi)
  IN [i \in 1..Len(sel) |-> Fin(sel[i].v, 1)]

\* C2: an instant-indexed stream on a uniform native step, resampled with
\* 'sum' at that step and the default bounds, comes back unchanged: one grid
\* point per record, each with the value recorded at that timestamp.
C2_SumAtNativeStepIsIdentity ==
  (/\ pc = "resample_returned"
   /\ IsInstantDf(df)
   /\ agg_method = "sum"
   /\ UniformStep(df, freq.h)
   /\ DataBounds)
  => /\ Len(result.datetime) = Len(df.rows)
     /\ \A i \in 1..Len(df.rows) :
          /\ result.datetime[i] = df.rows[i].datetime
          /\ result.value[i] = Fin(df.rows[i].v, 1)

\* C3: an instant-indexed stream with no missing native points, resampled
\* with 'sum' at k native steps, gives every bucket the sum of the native
\* values in [g, g + freq), the bucket sums add up to the total of the source
\* values, and the one-sample-per-hour stream of value 1 resampled at one day
\* gives one point per day, each of value 24.
C3_SumConservation ==
  (/\ pc = "resample_returned"
   /\ IsInstantDf(df)
   /\ agg_method = "sum"
   /\ DataBounds
   /\ \E s \in 1..MaxFreq : UniformStep(df, s) /\ freq.h % s = 0 /\ freq.h > 0)
  => /\ \A i \in 1..Len(result.datetime) :
          result.value[i] =
            SumSeq(ValuesIn(df, result.datetime[i], result.datetime[i] + freq.h))
     /\ SumSeq(result.value) = SumSeq(ValuesIn(df, 0, UpperBound(df, NoneTS) + 1))
     /\ \A days \in 1..MaxDays :
          (df = DayStream(days) /\ freq.h = HoursPerDay) =>
            /\ Len(result.datetime) = days
            /\ \A i \in 1..days : result.value[i] = Fin(HoursPerDay, 1)

\* the records of an interval-indexed stream that intersect [g, g + h)
Intersecting(d, g, h) ==
  SelectSeq(d.rows, LAMBDA r : r.start < g + h /\ r.end > g)

\* the aggregate over exactly the records that intersect the bucket
WeightedAggregate(d, h, agg, g) ==
  LET sel == Intersecting(d, g, h)
      fr == interval_fraction([i \in 1..Len(sel) |-> sel[i].start],
                              [i \in 1..Len(sel) |-> sel[i].end], g, g + h)
  IN IF Len(sel) = 0 THEN Zero
     ELSE Agg(agg, [i \in 1..Len(sel) |-> Mul(Fin(sel[i].v, 1), fr[i])])

\* C4: for an interval-indexed stream the value of bucket g is the chosen
\* aggregation of value x overlap fraction over exactly the records whose
\* interval intersects [g, g + frequency); a record that only touches the
\* bucket at g + frequency takes no part in it.
C4_IntervalBucketAggregate ==
  (pc = "resample_returned" /\ IsIntervalDf(df) /\ freq.h > 0)
  => \A i \in 1..Len(result.datetime) :
       result.value[i] =
         WeightedAggregate(df, freq.h, agg_method, result.datetime[i])

\* the bucket [g, g + h) holds no source record
EmptyBucket(d, g, h) ==
  IF IsIntervalDf(d) THEN Len(Intersecting(d, g, h)) = 0
  ELSE Len(ValuesIn(d, g, g + h)) = 0

\* C5: the result of a valid call has exactly one row per point of the
\* uniform grid lower, lower + freq, ... <= upper, in increasing order, and
\* every grid point whose bucket [g, g + freq) holds no source record has
\* value 0.
C5_FullGridZeroFill ==
  (pc = "resample_returned" /\ freq.h > 0)
  => /\ Len(result.value) = Len(result.datetime)
     /\ initial_datetime.t <= final_datetime.t =>
          Len(result.datetime) =
            (final_datetime.t - initial_datetime.t) \div freq.h + 1
     /\ \A i \in 1..Len(result.datetime) :
          /\ result.datetime[i] = initial_datetime.t + (i - 1) * freq.h
          /\ EmptyBucket(df, result.datetime[i], freq.h) =>
               result.value[i] = Zero

\* the call is one the resampler must reject
InvalidResampleInput ==
  \/ name \notin df.cols
  \/ agg_method \notin AGG_METHODS
  \/ freq.kind # "offset"
  \/ freq.h <= 0
  \/ ~("datetime" \in df.cols \/ {"start", "end"} \subseteq df.cols)

\* C10: a call with an absent column, an unsupported aggregation, a
\* non-positive or unparseable frequency or a malformed stream raises before
\* the grid is built or a bucket aggregated, and returns nothing.
C10_InvalidInputRaisesEagerly ==
  InvalidResampleInput =>
    /\ pc \in {"resample_df", "resample_grid", "resample_raised"}
    /\ result = NoFrame

\* ---------------------------------------------- combine_wearable_dataframes
WEARABLE_RESAMPLE_METHOD ==
  [n \in VALID_WEARABLE_STREAMS |->
     CASE n = "steps" -> "sum"
       [] n = "wake" -> "max"
       [] OTHER -> "mean"]

\* lines 278-284: the exception raised while the bounds of one frame are read
bounds_error(d) ==
  IF is_valid(d) # "none" THEN is_valid(d)
  ELSE IF "start" \in d.cols THEN
    (IF "end" \in d.cols THEN "none" ELSE "AttributeError")
  ELSE IF "datetime" \in d.cols THEN "none" ELSE "AttributeError"

\* lines 279-284: the bounds one frame contributes
FrameLower(d) ==
  IF "start" \in d.cols THEN MinOf(Column(d, "start"))
  ELSE MinOf(Column(d, "datetime"))

FrameUpper(d) ==
  IF "start" \in d.cols THEN MaxOf(Column(d, "end"))
  ELSE MaxOf(Column(d, "datetime"))

\* a defect: every stream resampled on its own bounds
CombineOwnBounds(d, nm, f, lo, hi) ==
  IF nm \notin DOMAIN WEARABLE_RESAMPLE_METHOD
  THEN [raised |-> "KeyError", frame |-> NoFrame]
  ELSE resample_df(d, nm, f, WEARABLE_RESAMPLE_METHOD[nm], NoneTS, NoneTS)

\* lines 290-293: the call of resample_df for one stream
CombineResampleCall(d, nm, f, lo, hi) ==
  IF nm \notin DOMAIN WEARABLE_RESAMPLE_METHOD
  THEN [raised |-> "KeyError", frame |-> NoFrame]
  ELSE resample_df(d, nm, f, WEARABLE_RESAMPLE_METHOD[nm], SomeTS(lo), SomeTS(hi))

\* a resampled frame as a table: one row per grid point, one value column
Table(nm, frame) ==
  [cols |-> <<nm>>,
   rows |-> [i \in 1..Len(frame.datetime) |->
               [datetime |-> frame.datetime[i], v |-> (nm :> frame.value[i])]]]

Range(s) == {s[i] : i \in 1..Len(s)}

Missing(cols) == [c \in Range(cols) |-> NaN]

\* the rows an outer join gives for one key
JoinKey(l, r, key) ==
  LET L == SelectSeq(l.rows, LAMBDA x : x.datetime = key)
      R == SelectSeq(r.rows, LAMBDA x : x.datetime = key)
  IN IF Len(L) = 0
     THEN [j \in 1..Len(R) |->
             [datetime |-> key, v |-> Missing(l.cols) @@ R[j].v]]
     ELSE IF Len(R) = 0
     THEN [i \in 1..Len(L) |->
             [datetime |-> key, v |-> L[i].v @@ Missing(r.cols)]]
     ELSE [m \in 1..(Len(L) * Len(R)) |->
             [datetime |-> key,
              v |-> L[((m - 1) \div Len(R)) + 1].v @@ R[((m - 1) % Len(R)) + 1].v]]

RECURSIVE JoinKeys(_, _, _)
JoinKeys(l, r, keys) ==
  IF keys = <<>> THEN <<>>
  ELSE JoinKey(l, r, Head(keys)) \o JoinKeys(l, r, Tail(keys))

\* df.merge(other, on='datetime', how='outer')
Merge(l, r) ==
  [cols |-> l.cols \o r.cols,
   rows |-> JoinKeys(l, r,
              SortedSeq({l.rows[i].datetime : i \in 1..Len(l.rows)}
                        \cup {r.rows[i].datetime : i \in 1..Len(r.rows)}))]

RECURSIVE InsertRow(_, _)
InsertRow(sorted, row) ==
  IF sorted = <<>> THEN <<row>>
  ELSE IF row.datetime < Head(sorted).datetime THEN <<row>> \o sorted
  ELSE <<Head(sorted)>> \o InsertRow(Tail(sorted), row)

RECURSIVE SortRows(_)
\* df.sort_values(by='datetime'): a stable sort
SortRows(rows) ==
  IF rows = <<>> THEN <<>>
  ELSE InsertRow(SortRows(SubSeq(rows, 1, Len(rows) - 1)), rows[Len(rows)])

\* a defect: resample_df hands back the frame it was given
InputFrameObject(i) == Arg("df_dict", i)

\* lines 255, 290-294: the frame resample_df returns for the i-th stream,
\* which is appended to df_list, is a DataFrame made by that call
FrameObject(i) == New("DataFrame", i)

\* lines 272-275: the call starts
CombineStart ==
  /\ pc = "combine"
  /\ df_list' = <<>>
  /\ initial_datetimes' = <<>>
  /\ final_datetimes' = <<>>
  /\ k' = 0
  /\ pc' = "combine_bounds"
  /\ UNCHANGED <<funVars, heapVars, raised, fracVars, resVars, combArgs, combined, esriVars>>

\* lines 276-284: one iteration of the first loop
CombineBounds ==
  /\ pc = "combine_bounds"
  /\ k < Len(df_dict)
  /\ bounds_error(df_dict[k + 1].df) = "none"
  /\ initial_datetimes' = Append(initial_datetimes, FrameLower(df_dict[k + 1].df))
  /\ final_datetimes' = Append(final_datetimes, FrameUpper(df_dict[k + 1].df))
  /\ k' = k + 1
  /\ bound' = Arg("df_dict", k + 1)
  /\ UNCHANGED <<funVars, written, returned, pc, raised, fracVars, resVars, combArgs, df_list, combined, esriVars>>

\* lines 278-284: a frame of the dictionary is not a wearable dataframe
CombineBoundsRaise ==
  /\ pc = "combine_bounds"
  /\ k < Len(df_dict)
  /\ bounds_error(df_dict[k + 1].df) # "none"
  /\ raised' = bounds_error(df_dict[k + 1].df)
  /\ pc' = "combine_raised"
  /\ bound' = Arg("df_dict", k + 1)
  /\ UNCHANGED <<funVars, written, returned, fracVars, resVars, combVars, esriVars>>

\* lines 285-286 on an empty dictionary: min() of an empty list
CombineMinMaxRaise ==
  /\ pc = "combine_bounds"
  /\ k = Len(df_dict)
  /\ Len(df_dict) = 0
  /\ raised' = "ValueError"
  /\ pc' = "combine_raised"
  /\ UNCHANGED <<funVars, heapVars, fracVars, resVars, combVars, esriVars>>

\* lines 285-286: the first loop is over, the second starts
CombineMinMax ==
  /\ pc = "combine_bounds"
  /\ k = Len(df_dict)
  /\ Len(df_dict) > 0
  /\ k' = 0
  /\ pc' = "combine_resample"
  /\ UNCHANGED <<funVars, heapVars, raised, fracVars, resVars, combArgs, initial_datetimes,
                 final_datetimes, df_list, combined, esriVars>>

\* lines 288-294: one stream is resampled on the shared bounds
CombineResample ==
  /\ pc = "combine_resample"
  /\ k < Len(df_dict)
  /\ LET new_df == CombineResampleCall(df_dict[k + 1].df, df_dict[k + 1].name,
                                       resample_freq, MinOf(initial_datetimes),
                                       MaxOf(final_datetimes))
     IN /\ new_df.raised = "none"
        /\ df_list' = Append(df_list, Table(df_dict[k + 1].name, new_df.frame))
  /\ k' = k + 1
  /\ bound' = Arg("df_dict", k + 1)
  /\ written' = written \cup {New("new_values", k + 1)}
  /\ UNCHANGED <<funVars, returned, pc, raised, fracVars, resVars, combArgs, initial_datetimes,
                 final_datetimes, combined, esriVars>>

\* lines 290-293: resample_df (or the method lookup) raises
CombineResampleRaise ==
  /\ pc = "combine_resample"
  /\ k < Len(df_dict)
  /\ LET new_df == CombineResampleCall(df_dict[k + 1].df, df_dict[k + 1].name,
                                       resample_freq, MinOf(initial_datetimes),
                                       MaxOf(final_datetimes))
     IN /\ new_df.raised # "none"
        /\ raised' = new_df.raised
  /\ pc' = "combine_raised"
  /\ bound' = Arg("df_dict", k + 1)
  /\ UNCHANGED <<funVars, written, returned, fracVars, resVars, combVars, esriVars>>

\* line 296: df = df_list[0]
CombineFirst ==
  /\ pc = "combine_resample"
  /\ k = Len(df_dict)
  /\ combined' = [cols |-> df_list[1].cols, attrs |-> {}, rows |-> df_list[1].rows]
  /\ k' = 1
  /\ pc' = "combine_merge"
  /\ bound' = FrameObject(1)
  /\ UNCHANGED <<funVars, written, returned, raised, fracVars, resVars, combArgs, initial_datetimes,
                 final_datetimes, df_list, esriVars>>

\* lines 297-298: one outer join
CombineMerge ==
  /\ pc = "combine_merge"
  /\ k < Len(df_list)
  /\ combined' = [cols |-> Merge(combined, df_list[k + 1]).cols,
                  attrs |-> {},
                  rows |-> Merge(combined, df_list[k + 1]).rows]
  /\ k' = k + 1
  /\ bound' = New("merge", k)
  /\ UNCHANGED <<funVars, written, returned, pc, raised, fracVars, resVars, combArgs, initial_datetimes,
                 final_datetimes, df_list, esriVars>>

\* line 300: df.sort_values(by='datetime', inplace=True)
CombineSort ==
  /\ pc = "combine_merge"
  /\ k = Len(df_list)
  /\ combined' = [combined EXCEPT !.rows = SortRows(combined.rows)]
  /\ pc' = "combine_metadata"
  /\ written' = written \cup {bound}
  /\ UNCHANGED <<funVars, bound, returned, raised, fracVars, resVars, combArgs, initial_datetimes,
                 final_datetimes, df_list, k, esriVars>>

\* lines 302-306: the metadata is attached and the frame returned
CombineReturn ==
  /\ pc = "combine_metadata"
  /\ metadata.some => validate_metadata(metadata.keys) = "none"
  /\ combined' = [combined EXCEPT !.attrs =
                    IF metadata.some THEN metadata.keys ELSE {"data_id"}]
  /\ pc' = "combine_returned"
  /\ written' = written \cup {bound}
  /\ returned' = {bound}
  /\ UNCHANGED <<funVars, bound, raised, fracVars, resVars, combArgs, initial_datetimes,
                 final_datetimes, df_list, k, esriVars>>

\* line 303: add_metadata rejects the metadata
CombineMetadataRaise ==
  /\ pc = "combine_metadata"
  /\ metadata.some /\ validate_metadata(metadata.keys) # "none"
  /\ raised' = validate_metadata(metadata.keys)
  /\ pc' = "combine_raised"
  /\ UNCHANGED <<funVars, heapVars, fracVars, resVars, combVars, esriVars>>

\* ------------------------------------- combine_wearable_dataframes: inputs
\* streams with one record of value v per hour from a to b
CombineInstant(nm) ==
  {InstantDf(nm, [i \in 1..(b - a + 1) |-> InstantRow(a + i - 1, v)]) :
     a \in 0..MaxCombineTime,
     b \in 0..MaxCombineTime,
     v \in 1..MaxCombineValue}

\* streams with the single record [a, b)
CombineInterval(nm) ==
  {IntervalDf(nm, <<IntervalRow(a, b, v)>>) :
     a \in 0..MaxCombineTime,
     b \in 1..MaxCombineTime,
     v \in 1..MaxCombineValue}

CombineStreams(nm) ==
  {d \in CombineInstant(nm) \cup CombineInterval(nm) :
     Len(d.rows) > 0 /\ (IsIntervalDf(d) => d.rows[1].start < d.rows[1].end)}

Entry(nm, d) == [name |-> nm, df |-> d]

\* dictionaries of one or two valid streams
ValidDicts ==
  {<<Entry(n, d)>> : n \in {"steps", "heartrate"}, d \in CombineStreams("steps")
     \cup CombineStreams("heartrate")}
  \cup {<<Entry("steps", d1), Entry(n2, d2)>> :
          d1 \in CombineStreams("steps"),
          n2 \in {"heartrate", "wake"},
          d2 \in CombineStreams("heartrate") \cup CombineStreams("wake")}
  \cup {<<Entry("wake", d1), Entry("steps", d2)>> :
          d1 \in CombineStreams("wake"), d2 \in CombineStreams("steps")}

\* dictionaries the call rejects, and one of three streams
OtherDicts ==
  {<<>>,
   <<Entry("calories", InstantDf("steps", <<InstantRow(0, 1)>>))>>,
   <<Entry("steps", InstantDf("steps", <<InstantRow(0, 1)>>)),
     Entry("heartrate", InstantDf("steps", <<InstantRow(1, 1)>>))>>,
   <<Entry("steps", InstantDf("steps", <<InstantRow(0, 1), InstantRow(1, 1)>>)),
     Entry("wake", IntervalDf("wake", <<IntervalRow(1, 3, 1)>>)),
     Entry("heartrate", InstantDf("heartrate", <<InstantRow(2, 1)>>))>>}
  \cup {<<Entry("steps", d)>> : d \in MalformedStreams}

InitCombineCall(dict, f, md) ==
  /\ pc = "combine"
  /\ raised = "none"
  /\ starts = <<>> /\ stops = <<>> /\ ref_start = 0 /\ ref_stop = 0
  /\ fractions = <<>>
  /\ IdleResample
  /\ df_dict = dict
  /\ resample_freq = f
  /\ metadata = md
  /\ initial_datetimes = <<>>
  /\ final_datetimes = <<>>
  /\ df_list = <<>>
  /\ combined = NoMerged
  /\ k = 0
  /\ IdleEsri
  /\ IdleHeap
  /\ IdleFun

InitCombine ==
  \/ \E dict \in {x \in ValidDicts :
                    \A i \in 1..Len(x) : x[i].name \in x[i].df.cols},
        h \in 1..MaxCombineFreq :
       InitCombineCall(dict, Offset(h), NoMetadata)
  \/ \E dict \in OtherDicts,
        md \in {NoMetadata, Metadata({"subject_id"}), Metadata({"other_info"})} :
       InitCombineCall(dict, Offset(1), md)

NextCombine ==
  \/ CombineStart
  \/ CombineBounds
  \/ CombineBoundsRaise
  \/ CombineMinMaxRaise
  \/ CombineMinMax
  \/ CombineResample
  \/ CombineResampleRaise
  \/ CombineFirst
  \/ CombineMerge
  \/ CombineSort
  \/ CombineReturn
  \/ CombineMetadataRaise

SpecCombine == InitCombine /\ [][NextCombine]_vars

\* ------------------------------------- combine_wearable_dataframes: claims
\* the bounds of the union of the spans of the dictionary's streams
UnionLower == MinOf([i \in 1..Len(df_dict) |-> FrameLower(df_dict[i].df)])
UnionUpper == MaxOf([i \in 1..Len(df_dict) |-> FrameUpper(df_dict[i].df)])

\* C6: the combined frame holds every grid timestamp exactly once, in
\* ascending order, and every value column on that same grid: each row carries,
\* for every stream, the value that stream's resampled frame has at that
\* timestamp, so the outer join leaves no value missing.
C6_CombinedGridAligned ==
  pc = "combine_returned" =>
    LET grid == date_range(UnionLower, UnionUpper, resample_freq.h)
    IN /\ Len(combined.rows) = Len(grid)
       /\ \A i \in 1..Len(grid) : combined.rows[i].datetime = grid[i]
       /\ \A i \in 1..Len(grid), j \in 1..Len(grid) :
            i < j => combined.rows[i].datetime < combined.rows[j].datetime
       /\ Len(combined.cols) = Len(df_dict)
       /\ \A j \in 1..Len(df_dict) :
            /\ combined.cols[j] = df_dict[j].name
            /\ Len(df_list[j].rows) = Len(grid)
            /\ \A i \in 1..Len(grid) :
                 /\ df_list[j].rows[i].datetime = grid[i]
                 /\ df_dict[j].name \in DOMAIN combined.rows[i].v
                 /\ combined.rows[i].v[df_dict[j].name]
                      = df_list[j].rows[i].v[df_dict[j].name]

\* two streams of different spans were merged into three rows or more
C6_Witness ==
  /\ pc = "combine_returned"
  /\ Len(df_dict) = 2
  /\ FrameLower(df_dict[1].df) # FrameLower(df_dict[2].df)
  /\ FrameUpper(df_dict[1].df) # FrameUpper(df_dict[2].df)
  /\ Len(combined.rows) >= 3

\* the spans of the two streams of the dictionary overlap in part
PartialOverlap ==
  /\ Len(df_dict) = 2
  /\ LET l1 == FrameLower(df_dict[1].df)
         u1 == FrameUpper(df_dict[1].df)
         l2 == FrameLower(df_dict[2].df)
         u2 == FrameUpper(df_dict[2].df)
     IN \/ l1 < l2 /\ l2 < u1 /\ u1 < u2
        \/ l2 < l1 /\ l1 < u2 /\ u2 < u1

\* the bucket [g, g + h) lies outside the native coverage of the stream
OutsideCoverage(d, g, h) ==
  IF IsIntervalDf(d)
  THEN g + h <= FrameLower(d) \/ g >= FrameUpper(d)
  ELSE g + h <= FrameLower(d) \/ g > FrameUpper(d)

\* C7: for two streams whose spans overlap in part the grid runs from the
\* minimum of the lower bounds to the maximum of the upper bounds, and each
\* stream's column is 0 at every grid point whose bucket lies outside that
\* stream's native coverage.
C7_UnionGridZeroOutside ==
  (pc = "combine_returned" /\ PartialOverlap) =>
    /\ Len(combined.rows) > 0
    /\ combined.rows[1].datetime = UnionLower
    /\ combined.rows[Len(combined.rows)].datetime <= UnionUpper
    /\ combined.rows[Len(combined.rows)].datetime + resample_freq.h > UnionUpper
    /\ \A j \in 1..2, i \in 1..Len(combined.rows) :
         OutsideCoverage(df_dict[j].df, combined.rows[i].datetime,
                         resample_freq.h)
           => combined.rows[i].v[df_dict[j].name] = Zero

\* -------------------------------------------------------------------- esri
\* np.diff(time)
Diff(t) == [i \in 1..(Len(t) - 1) |-> t[i + 1] - t[i]]

\* np.isclose(a, b) with its defaults rtol = 1e-05 and atol = 1e-08:
\* |a - b| <= atol + rtol * |b|, scaled by 10^8
IsClose(a, b) == Abs(a - b) * 100000000 <= 1 + 1000 * Abs(b)

\* a defect: the validation without its last test, the sign of the amplitude
SkipAmplitudeTest(t, light, days, dt, amplitude) ==
  IF Len(t) # Len(light) THEN "ValueError"
  ELSE IF Len(t) < 2 THEN "IndexError"
  ELSE IF \E i \in 1..(Len(t) - 1) : ~IsClose(Diff(t)[i], Diff(t)[1])
    THEN "ValueError"
  ELSE IF days < 1 THEN "ValueError"
  ELSE IF dt <= 0 THEN "ValueError"
  ELSE "none"

\* lines 24-44: the exception the input validation raises, "none" if none
esri_validate(t, light, days, dt, amplitude) ==
  IF Len(t) # Len(light) THEN "ValueError"
  ELSE IF Len(t) < 2 THEN "IndexError"
  ELSE IF \E i \in 1..(Len(t) - 1) : ~IsClose(Diff(t)[i], Diff(t)[1])
    THEN "ValueError"
  ELSE IF days < 1 THEN "ValueError"
  ELSE IF dt <= 0 THEN "ValueError"
  ELSE IF Less(amplitude, Zero) THEN "ValueError"
  ELSE "none"

\* np.arange(start, stop, step) for step > 0: start, start + step, ... < stop
arange(start, stop, step) ==
  IF stop <= start THEN <<>>
  ELSE [i \in 1..((stop - start + step - 1) \div step) |-> start + (i - 1) * step]

\* line 48: the starting points
EsriTime(t, days, dt) == arange(t[1], t[Len(t)] - days * HoursPerDay, dt)

\* a defect: negative values are left in the array
KeepNegatives(arr) == arr

\* line 59: esri_array[esri_array < 0] = np.nan
CleanNegatives(arr) ==
  [i \in 1..Len(arr) |-> IF Less(arr[i], Zero) THEN NaN ELSE arr[i]]

\* lines 52-55: the arrays one iteration hands to the model, all made by
\* that iteration (np.array, np.arange, np.interp); the model may write them
ModelArguments ==
  {New("initial_condition", 0), New("simulation_time", 0),
   New("simulation_light", 0)}

\* lines 24-44: the validation raises
EsriValidateRaise ==
  /\ pc = "esri"
  /\ esri_validate(time, light_schedule, analysis_days, esri_dt,
                   initial_amplitude) # "none"
  /\ raised' = esri_validate(time, light_schedule, analysis_days, esri_dt,
                             initial_amplitude)
  /\ pc' = "esri_raised"
  /\ UNCHANGED <<funVars, heapVars, fracVars, resVars, combVars, esriVars>>

\* lines 24-44: the validation passes
EsriValidateOk ==
  /\ pc = "esri"
  /\ esri_validate(time, light_schedule, analysis_days, esri_dt,
                   initial_amplitude) = "none"
  /\ pc' = "esri_setup"
  /\ UNCHANGED <<funVars, heapVars, raised, fracVars, resVars, combVars, esriVars>>

\* lines 46-49: the model, the starting points and the zero array
EsriSetup ==
  /\ pc = "esri_setup"
  /\ model' = TRUE
  /\ simulation_dt' = Diff(time)[1]
  /\ esri_time' = EsriTime(time, analysis_days, esri_dt)
  /\ esri_array' = [i \in 1..Len(esri_time') |-> Zero]
  /\ eidx' = 0
  /\ pc' = "esri_loop"
  /\ UNCHANGED <<funVars, heapVars, raised, fracVars, resVars, combVars, esriArgs, model_calls,
                 warned, ret>>

\* a defect: the amplitude of the previous starting point is carried over
\* into the next simulation
CarriedIteration(arr, times, osc, i) ==
  [arr EXCEPT ![i] = IF i > 1 THEN Add(osc[times[i]], arr[i - 1])
                     ELSE osc[times[i]]]

\* lines 51-57: the body of the loop for the i-th starting point: the final
\* amplitude of the simulation started at times[i] is stored in slot i
Iteration(arr, times, osc, i) ==
  [arr EXCEPT ![i] = osc[times[i]]]

\* lines 50-57: one simulation; the model's final amplitude is stored
EsriIterate ==
  /\ pc = "esri_loop"
  /\ eidx < Len(esri_time)
  /\ model_calls' = model_calls + 1
  /\ esri_array' = Iteration(esri_array, esri_time, oscillator, eidx + 1)
  /\ eidx' = eidx + 1
  /\ written' = written \cup ModelArguments \cup {New("esri_array", 0)}
  /\ UNCHANGED <<funVars, bound, returned, pc, raised, fracVars, resVars, combVars, esriArgs, model,
                 simulation_dt, esri_time, warned, ret>>

\* line 59: the loop is over; negative values become NaN
EsriCleanup ==
  /\ pc = "esri_loop"
  /\ eidx = Len(esri_time)
  /\ esri_array' = CleanNegatives(esri_array)
  /\ pc' = "esri_check"
  /\ written' = written \cup {New("esri_array", 0)}
  /\ UNCHANGED <<funVars, bound, returned, raised, fracVars, resVars, combVars, esriArgs, model,
                 model_calls, simulation_dt, esri_time, eidx, warned, ret>>

\* lines 61-62: a NaN in the array gives a warning
EsriWarn ==
  /\ pc = "esri_check"
  /\ \E i \in 1..Len(esri_array) : IsNaN(esri_array[i])
  /\ warned' = TRUE
  /\ pc' = "esri_return"
  /\ UNCHANGED <<funVars, heapVars, raised, fracVars, resVars, combVars, esriArgs, model,
                 model_calls, simulation_dt, esri_time, esri_array, eidx, ret>>

\* line 61: no NaN, no warning
EsriNoWarn ==
  /\ pc = "esri_check"
  /\ \A i \in 1..Len(esri_array) : ~IsNaN(esri_array[i])
  /\ pc' = "esri_return"
  /\ UNCHANGED <<funVars, heapVars, raised, fracVars, resVars, combVars, esriVars>>

\* line 63: both arrays are returned
EsriReturn ==
  /\ pc = "esri_return"
  /\ ret' = [time |-> esri_time, values |-> esri_array]
  /\ pc' = "esri_returned"
  /\ returned' = {New("esri_time", 0), New("esri_array", 0)}
  /\ UNCHANGED <<funVars, bound, written, raised, fracVars, resVars, combVars, esriArgs, model,
                 model_calls, simulation_dt, esri_time, esri_array, eidx, warned>>

\* ------------------------------------------------------------ esri: inputs
\* an evenly spaced time array of n samples from t0 in steps of dt hours
TimeArray(t0, dt, n) == [i \in 1..n |-> t0 + (i - 1) * dt]

\* the time array from t0 that runs extra hours beyond days of analysis
\* (extra = -1: one hour short of them)
UniformTime(t0, days, extra) ==
  TimeArray(t0, 1, days * HoursPerDay + extra + 1)

\* time arrays the validation rejects, or too short to have a step
OddTimes == {<<0, 1, 3>>, <<0>>, <<>>}

Darkness(n) == [i \in 1..n |-> 0]

\* final amplitudes the oscillator model may give
Amplitudes == {Fin(-1, 2), Zero, Fin(1, 2), NaN}

\* the starting points of a call, none when the call is rejected
StartingPoints(t, light, days, dt, amplitude) ==
  IF esri_validate(t, light, days, dt, amplitude) # "none" THEN {}
  ELSE Range(EsriTime(t, days, dt))

InitEsriCall(t, light, days, dt, amplitude, osc) ==
  /\ pc = "esri"
  /\ raised = "none"
  /\ starts = <<>> /\ stops = <<>> /\ ref_start = 0 /\ ref_stop = 0
  /\ fractions = <<>>
  /\ IdleResample
  /\ IdleCombine
  /\ time = t
  /\ light_schedule = light
  /\ analysis_days = days
  /\ esri_dt = dt
  /\ initial_amplitude = amplitude
  /\ oscillator = osc
  /\ model = FALSE
  /\ model_calls = 0
  /\ simulation_dt = 0
  /\ esri_time = <<>>
  /\ esri_array = <<>>
  /\ eidx = 0
  /\ warned = FALSE
  /\ ret = NoReturn
  /\ IdleHeap
  /\ IdleFun

\* the calls of esri: accepted ones, then rejected ones
EsriCalls ==
  \/ \E t0 \in 0..MaxStartHour, days \in 1..MaxAnalysisDays,
        extra \in (-1)..MaxExtra, dt \in 1..MaxEsriDt,
        amplitude \in {Zero, Fin(1, 10)} :
       LET t == UniformTime(t0, days, extra)
       IN \E osc \in [StartingPoints(t, Darkness(Len(t)), days, dt, amplitude)
                        -> Amplitudes] :
            InitEsriCall(t, Darkness(Len(t)), days, dt, amplitude, osc)
  \/ \E t \in OddTimes \cup {TimeArray(0, 1, HoursPerDay + 2)},
        short \in 0..1, days \in 0..1, dt \in 0..1,
        amplitude \in {Fin(-1, 10), Fin(1, 10)} :
       /\ Len(t) >= short
       /\ InitEsriCall(t, Darkness(Len(t) - short), days, dt, amplitude,
            [p \in StartingPoints(t, Darkness(Len(t) - short), days, dt,
                                  amplitude) |-> Zero])

\* the loop of the source takes the starting points as they come
InitEsri == EsriCalls /\ order = <<>>

NextEsri ==
  \/ EsriValidateRaise
  \/ EsriValidateOk
  \/ EsriSetup
  \/ EsriIterate
  \/ EsriCleanup
  \/ EsriWarn
  \/ EsriNoWarn
  \/ EsriReturn

SpecEsri == InitEsri /\ [][NextEsri]_vars

\* ------------------------------------------------------------ esri: claims
\* C8: whatever amplitudes the model gives, every returned value is
\* non-negative or NaN: each negative final amplitude is replaced by NaN and
\* every other one kept, a warning is issued when a value was replaced, and
\* the call returns one value per starting point without raising.
C8_NonNegativeOrNaN ==
  pc = "esri_returned" =>
    /\ raised = "none"
    /\ ret.time = EsriTime(time, analysis_days, esri_dt)
    /\ Len(ret.values) = Len(ret.time)
    /\ \A i \in 1..Len(ret.values) :
         /\ IsNaN(ret.values[i]) \/ Leq(Zero, ret.values[i])
         /\ Less(oscillator[ret.time[i]], Zero) => IsNaN(ret.values[i])
         /\ ~Less(oscillator[ret.time[i]], Zero)
              => ret.values[i] = oscillator[ret.time[i]]
    /\ (\E i \in 1..Len(ret.time) : Less(oscillator[ret.time[i]], Zero))
         => warned

\* a call returned after one negative amplitude was replaced and one
\* positive amplitude kept
C8_Witness ==
  /\ pc = "esri_returned"
  /\ warned
  /\ \E i \in 1..Len(ret.time) :
       Less(oscillator[ret.time[i]], Zero) /\ IsNaN(ret.values[i])
  /\ \E i \in 1..Len(ret.time) : Less(Zero, ret.values[i])

\* the starting points t0, t0 + esri_dt, ... up to series_end - D * 24 hours
StartsUpTo(t, days, dt) ==
  LET last == t[Len(t)] - days * HoursPerDay
  IN IF last < t[1] THEN <<>>
     ELSE [i \in 1..((last - t[1]) \div dt + 1) |-> t[1] + (i - 1) * dt]

\* C9: the starting points are every esri_dt step from the series start up
\* to series_end - D * 24 hours; on a series spanning exactly D days, with
\* esri_dt = 1, that is the one starting point t = series_start.
C9_StartingPoints ==
  pc \in {"esri_loop", "esri_check", "esri_return", "esri_returned"} =>
    /\ esri_time = StartsUpTo(time, analysis_days, esri_dt)
    /\ (time[Len(time)] - time[1] = analysis_days * HoursPerDay /\ esri_dt = 1)
         => esri_time = <<time[1]>>

\* one of the inputs the contract of esri rejects
InvalidEsriInput ==
  \/ Len(time) # Len(light_schedule)
  \/ \E i \in 1..(Len(time) - 1) : time[i + 1] - time[i] # time[2] - time[1]
  \/ analysis_days < 1
  \/ esri_dt <= 0
  \/ Less(initial_amplitude, Zero)

\* C11: on arrays of different lengths, a non-uniform time step,
\* analysis_days < 1, esri_dt <= 0 or a negative initial amplitude the call
\* never gets past its validation: it ends raising an error, the model is
\* neither constructed nor invoked, and nothing is computed or returned.
C11_RejectedBeforeModel ==
  InvalidEsriInput =>
    /\ pc \in {"esri", "esri_raised"}
    /\ pc = "esri_raised" => raised \in {"ValueError", "IndexError"}
    /\ ~model
    /\ model_calls = 0
    /\ esri_time = <<>>
    /\ esri_array = <<>>
    /\ ret = NoReturn

\* a call whose only fault is the negative initial amplitude, the last test
\* of the validation, has raised
C11_Witness ==
  /\ pc = "esri_raised"
  /\ raised = "ValueError"
  /\ Less(initial_amplitude, Zero)
  /\ Len(time) = Len(light_schedule)
  /\ Len(time) > HoursPerDay
  /\ \A i \in 1..(Len(time) - 1) : time[i + 1] - time[i] = time[2] - time[1]
  /\ analysis_days >= 1
  /\ esri_dt > 0
  /\ ~model

\* ------------------------------------------------ interval_fraction: errors
\* C12: when a source interval has zero duration (start = end) the call
\* fails with an invalid-input error; it returns no Series, and so neither
\* infinity nor not-a-number for that interval.
C12_ZeroDurationRaises ==
  (/\ pc # "interval_fraction"
   /\ \E i \in 1..Len(starts) : starts[i] = stops[i])
    => /\ raised # "none"
       /\ fractions = <<>>
       /\ \A i \in 1..Len(fractions) : IsFin(fractions[i])

\* ------------------------------------------------------ the three operations
\* one call of resample_df, of combine_wearable_dataframes or of esri
InitCore == InitResample \/ InitCombine \/ InitEsri

NextCore == NextResample \/ NextCombine \/ NextEsri

SpecCore == InitCore /\ [][NextCore]_vars

\* the streams, dictionaries, arrays and parameters the caller hands over
Inputs ==
  <<df, name, freq, agg_method, df_dict, resample_freq, metadata, time,
    light_schedule, analysis_days, esri_dt, initial_amplitude>>

\* C13: no step of resample_df, combine_wearable_dataframes or esri changes
\* an input: the rows, columns and metadata of every input stream, the
\* dictionary and the time and light arrays keep their values up to the
\* return or the raise, every object written in place was made by the call
\* itself, and so was every object returned.
C13_InputsUnchanged ==
  [][/\ Inputs' = Inputs
     /\ \A o \in written' \cup returned' : ~o.arg]_vars

\* a call combining a single stream has returned: the frame it sorted and
\* tagged in place, and returned, is the one resample_df made
C13_Witness ==
  /\ pc = "combine_returned"
  /\ Len(df_dict) = 1
  /\ bound = FrameObject(1)
  /\ bound \in written
  /\ returned = {bound}
  /\ combined.attrs # df_dict[1].df.attrs

\* ------------------------------------------- esri: starting points in any order
\* lines 50-57 run by an executor that takes the starting points in the
\* given order: the same body, for the slot that is next in the order
EsriIterateAny ==
  /\ pc = "esri_loop"
  /\ eidx < Len(esri_time)
  /\ model_calls' = model_calls + 1
  /\ esri_array' = Iteration(esri_array, esri_time, oscillator, order[eidx + 1])
  /\ eidx' = eidx + 1
  /\ written' = written \cup ModelArguments \cup {New("esri_array", 0)}
  /\ UNCHANGED <<funVars, bound, returned, pc, raised, fracVars, resVars, combVars,
                 esriArgs, model, simulation_dt, esri_time, warned, ret>>

\* the orders n starting points can be taken in
Orders(n) ==
  {f \in [1..n -> 1..n] : \A i, j \in 1..n : f[i] = f[j] => i = j}

\* a call of esri and an order for its starting points
InitEsriAnyOrder ==
  /\ EsriCalls
  /\ order \in Orders(Cardinality(StartingPoints(time, light_schedule,
                          analysis_days, esri_dt, initial_amplitude)))

NextEsriAnyOrder ==
  \/ EsriValidateRaise
  \/ EsriValidateOk
  \/ EsriSetup
  \/ EsriIterateAny
  \/ EsriCleanup
  \/ EsriWarn
  \/ EsriNoWarn
  \/ EsriReturn

SpecEsriAnyOrder == InitEsriAnyOrder /\ [][NextEsriAnyOrder]_vars

\* the array the loop of the source leaves: the body applied to the slots
\* 1, 2, ..., n in turn
RECURSIVE SequentialLoop(_, _, _, _)
SequentialLoop(arr, times, osc, n) ==
  IF n = 0 THEN arr
  ELSE Iteration(SequentialLoop(arr, times, osc, n - 1), times, osc, n)

\* the slots of the starting points taken so far
Taken == {order[m] : m \in 1..eidx}

Objects == 1..Len(object_type)

\* GameObject.is_available()
is_available(use, o) == use[o] = "none"

\* GameObject.set_in_use(npc_id)
set_in_use(use, o, who) == [use EXCEPT ![o] = who]

\* GameObject.set_free()
set_free(use, o) == [use EXCEPT ![o] = "none"]

\* lines 92-95: the objects the loop may select
Candidates ==
  {o \in Objects : is_available(in_use_by, o)
                     /\ object_type[o] \in required_object_types}

\* lines 74-100: what is_valid returns
is_valid_result ==
  IF ~super_valid THEN FALSE
  ELSE IF fun_is_high THEN FALSE
  ELSE IF without_objects THEN TRUE
  ELSE IF ~has_location THEN FALSE
  ELSE IF required_object_types = {} THEN FALSE
  ELSE Candidates # {}

\* lines 92-95: the target is_valid leaves: the first available object of a
\* required kind when the loop is reached and finds one, the old target else
is_valid_target ==
  IF super_valid /\ ~fun_is_high /\ ~without_objects /\ has_location
     /\ Candidates # {}
  THEN CHOOSE o \in Candidates : \A p \in Candidates : o <= p
  ELSE target_object

\* a defect: the object is never released
KeepInUse(use, target) == use

\* lines 155-156 and 171-172: the target, if there is one, is set free
Release(use, target) ==
  IF target # NoTarget THEN set_free(use, target) ELSE use

\* lines 74-100: is_valid accepts the action (and may select a target)
FunIsValid ==
  /\ pc \in {"fun_created", "fun_valid"}
  /\ is_valid_result
  /\ target_object' = is_valid_target
  /\ pc' = "fun_valid"
  /\ UNCHANGED <<raised, fracVars, resVars, combVars, esriVars, heapVars,
                 funArgs, in_use_by, elapsed_ticks, fun_change>>

\* lines 74-100: is_valid rejects the action, which is dropped
FunIsNotValid ==
  /\ pc \in {"fun_created", "fun_valid"}
  /\ ~is_valid_result
  /\ target_object' = is_valid_target
  /\ pc' = "fun_rejected"
  /\ UNCHANGED <<raised, fracVars, resVars, combVars, esriVars, heapVars,
                 funArgs, in_use_by, elapsed_ticks, fun_change>>

\* lines 102-105: on_start marks the target as in use by the NPC
FunOnStart ==
  /\ pc = "fun_valid"
  /\ in_use_by' = IF target_object # NoTarget
                  THEN set_in_use(in_use_by, target_object, "npc")
                  ELSE in_use_by
  /\ pc' = "fun_started"
  /\ UNCHANGED <<raised, fracVars, resVars, combVars, esriVars, heapVars,
                 funArgs, target_object, elapsed_ticks, fun_change>>

\* lines 124-125: one tick of the running action
FunExecuteTick ==
  /\ pc = "fun_started"
  /\ elapsed_ticks < duration_ticks
  /\ elapsed_ticks' = elapsed_ticks + 1
  /\ UNCHANGED <<pc, raised, fracVars, resVars, combVars, esriVars, heapVars,
                 funArgs, in_use_by, target_object, fun_change>>

\* lines 131-157: the action has run its ticks: effects_on_needs (133-134)
\* and line 138 each add fun_gain, then the target is released
FunOnFinish ==
  /\ pc = "fun_started"
  /\ elapsed_ticks = duration_ticks
  /\ fun_change' = Add(Add(fun_change, fun_gain), fun_gain)
  /\ in_use_by' = Release(in_use_by, target_object)
  /\ pc' = "fun_finished"
  /\ UNCHANGED <<raised, fracVars, resVars, combVars, esriVars, heapVars,
                 funArgs, target_object, elapsed_ticks>>

\* lines 162-164: fun_gain * (elapsed_ticks / duration_ticks) * 0.75
partial_fun_gain ==
  Mul(Mul(fun_gain, Fin(elapsed_ticks, duration_ticks)), Fin(3, 4))

\* lines 159-172: the running action is interrupted: a partial gain when it
\* is positive, then the target is released
FunOnInterruptEffects ==
  /\ pc = "fun_started"
  /\ fun_change' = IF duration_ticks > 0 /\ Less(Zero, partial_fun_gain)
                   THEN Add(fun_change, partial_fun_gain)
                   ELSE fun_change
  /\ in_use_by' = Release(in_use_by, target_object)
  /\ pc' = "fun_interrupted"
  /\ UNCHANGED <<raised, fracVars, resVars, combVars, esriVars, heapVars,
                 funArgs, target_object, elapsed_ticks>>

\* another NPC's action starts using an available object
OtherSetInUse ==
  /\ pc \in {"fun_created", "fun_valid", "fun_started", "fun_finished",
              "fun_interrupted"}
  /\ \E o \in Objects :
       /\ is_available(in_use_by, o)
       /\ in_use_by' = set_in_use(in_use_by, o, "other")
  /\ UNCHANGED <<pc, raised, fracVars, resVars, combVars, esriVars, heapVars,
                 funArgs, target_object, elapsed_ticks, fun_change>>

\* another NPC's action releases the object it uses
OtherSetFree ==
  /\ pc \in {"fun_created", "fun_valid", "fun_started", "fun_finished",
              "fun_interrupted"}
  /\ \E o \in Objects :
       /\ in_use_by[o] = "other"
       /\ in_use_by' = set_free(in_use_by, o)
  /\ UNCHANGED <<pc, raised, fracVars, resVars, combVars, esriVars, heapVars,
                 funArgs, target_object, elapsed_ticks, fun_change>>

\* --------------------------------------------------- HaveFunAction: inputs
InitFun ==
  /\ pc = "fun_created"
  /\ raised = "none"
  /\ starts = <<>> /\ stops = <<>> /\ ref_start = 0 /\ ref_stop = 0
  /\ fractions = <<>>
  /\ IdleResample
  /\ IdleCombine
  /\ IdleEsri
  /\ IdleHeap
  /\ super_valid \in BOOLEAN
  /\ fun_is_high \in BOOLEAN
  /\ without_objects \in BOOLEAN
  /\ has_location \in BOOLEAN
  /\ required_object_types \in SUBSET (1..MaxObjectTypes)
  /\ \E n \in 0..MaxObjects :
       /\ object_type \in [1..n -> 1..MaxObjectTypes]
       /\ in_use_by \in [1..n -> {"none", "other"}]
  /\ target_object = NoTarget
  /\ duration_ticks \in 0..MaxTicks
  /\ elapsed_ticks = 0
  /\ fun_gain \in {Fin(g, 1) : g \in 1..MaxFunGain}
  /\ fun_change = Zero

NextFun ==
  \/ FunIsValid
  \/ FunIsNotValid
  \/ FunOnStart
  \/ FunExecuteTick
  \/ FunOnFinish
  \/ FunOnInterruptEffects
  \/ OtherSetInUse
  \/ OtherSetFree

SpecFun == InitFun /\ [][NextFun]_vars

====
